---- MODULE Spec2Model ----
(***************************************************************************)
(* State-machine model of main_v2.py: the OpenLibrary harvest loop          *)
(* (harvest_openlibrary) together with the extractors it calls              *)
(* (get_ratings, get_work_details, parse_languages_from_work,               *)
(* infer_from_editions_for_first_year).                                     *)
(*                                                                          *)
(* Python values are encoded with one shape per kind so that values of      *)
(* different Python types stay comparable:                                  *)
(*   - an optional value is a sequence: <<>> is None, <<x>> is x;           *)
(*   - a JSON field is a record [t |-> type tag, v |-> sequence];           *)
(*   - a float is kept in tenths (25 is 2.5).                               *)
(* Row fields the properties below do not read (title, author,              *)
(* edition_count, series, number_of_pages_median) are left out of rows.     *)
(***************************************************************************)
EXTENDS Integers, Sequences, FiniteSets, TLC

VARIABLES
    target_books,                \* parameters of harvest_openlibrary
    min_ratings,
    max_skips_without_rating,
    max_pages_per_query,
    use_editions_fallback,
    rows,                        \* accumulated output rows
    seen,                        \* set of accepted work keys
    qi,                          \* index of the current query in QUERIES
    page,                        \* current page number of the query
    consecutive_skips,           \* skip counter of the query
    ndocs,                       \* len(docs) of the page being scanned
    di,                          \* index of the next document in docs
    pc,                          \* position in the control flow
    ended,                       \* history: how each finished query ended
    failrun,                     \* history: rating failures in a row in this query
    page_abort,                  \* history: the break of line 372 was taken on this page
    last                         \* history: the last step and the responses it read

config == <<target_books, min_ratings, max_skips_without_rating,
            max_pages_per_query, use_editions_fallback>>
vars == <<target_books, min_ratings, max_skips_without_rating,
          max_pages_per_query, use_editions_fallback, rows, seen, qi, page,
          consecutive_skips, ndocs, di, pc, ended, failrun, page_abort, last>>

----------------------------------------------------------------------------
(* Bounds *)

NumQueries == 2          \* how many entries of QUERIES are iterated
MaxTarget == 2           \* largest target_books
MaxSkips == 2            \* largest max_skips_without_rating
MaxPages == 2            \* largest max_pages_per_query
MaxDocs == 2             \* largest number of documents on a search page
MaxEditions == 2         \* largest number of entries in an editions snapshot

----------------------------------------------------------------------------
(* Encodings of Python values *)

None == <<>>
Some(x) == <<x>>
absent == [t |-> "absent", v |-> <<>>]
List(s) == [t |-> "list", v |-> s]
Str(s) == [t |-> "str", v |-> s]
Num(s) == [t |-> "num", v |-> <<s>>]
Map(s) == [t |-> "map", v |-> s]
Text(s) == [t |-> "str", v |-> <<s>>]

Max(a, b) == IF a >= b THEN a ELSE b

\* Python truthiness of a JSON field: None, 0, "", [] and {} are falsy.
Truthy(x) ==
    CASE x.t = "absent" -> FALSE
      [] x.t = "null" -> FALSE
      [] x.t = "num" -> x.v # <<"0">>
      [] OTHER -> x.v # <<>>

\* ", ".join(seq) for a sequence of strings
RECURSIVE JoinComma(_)
JoinComma(s) ==
    IF s = <<>> THEN ""
    ELSE IF Len(s) = 1 THEN s[1]
    ELSE s[1] \o ", " \o JoinComma(Tail(s))

\* str.strip() on the strings the pools below use
Strip(s) ==
    CASE s = " " -> ""
      [] s = " Penguin " -> "Penguin"
      [] s = " London" -> "London"
      [] OTHER -> s

QUERIES == SubSeq(<<"fiction", "novel", "classics", "literature", "fantasy",
                    "science fiction", "mystery", "thriller", "horror",
                    "romance", "young adult", "historical fiction",
                    "nonfiction">>, 1, NumQueries)

----------------------------------------------------------------------------
(* get_ratings *)

\* int(x) of a number kept in tenths: truncation towards zero
IntOf(n) == IF n >= 0 THEN n \div 10 ELSE -((-n) \div 10)

IsNumber(raw) == raw.t \in {"int", "float"}

\* summary is the "summary" mapping of ratings.json ({} when the request
\* failed or the key is missing): count and average are raw JSON numbers
\* [t |-> "int" | "float" | "str" | "absent", n |-> value in tenths].
get_ratings(summary) ==
    [cnt |-> IF IsNumber(summary.count) THEN Some(IntOf(summary.count.n)) ELSE None,
     avg |-> IF IsNumber(summary.average) THEN Some(summary.average.n) ELSE None]

\* the filter letting a missing count through
RatingFailsNoneOk(cnt, minr) == IF cnt = None THEN FALSE ELSE cnt[1] < minr

\* the ratings filter of line 367
RatingFails(cnt, minr) == IF cnt = None THEN TRUE ELSE cnt[1] < minr

----------------------------------------------------------------------------
(* parse_languages_from_work, get_work_details *)

\* k.startswith("/languages/"), k given as k.split("/")
StartsWithLanguages(segs) ==
    Len(segs) >= 3 /\ segs[1] = "" /\ segs[2] = "languages"

\* One item of a "languages" list: [t |-> "dict" | "other", kstr |-> the key
\* is a string, k |-> the key split at "/"].  A dict without "key" has the
\* default key "", which splits to <<"">>.
LangCodeOf(it) == it.k[Len(it.k)]
LangItemOk(it) == it.t = "dict" /\ it.kstr /\ StartsWithLanguages(it.k)

RECURSIVE LangCodes(_)
LangCodes(items) ==
    IF items = <<>> THEN <<>>
    ELSE IF LangItemOk(Head(items))
         THEN <<LangCodeOf(Head(items))>> \o LangCodes(Tail(items))
         ELSE LangCodes(Tail(items))

\* iterating a truthy number raises TypeError
ParseLanguagesRaises(wj) == wj.languages.t = "num" /\ Truthy(wj.languages)

\* a string or a mapping is iterated by characters or keys, none of which
\* is a dict, so only a list can contribute codes
parse_languages_from_work(wj) ==
    IF Truthy(wj.languages) /\ wj.languages.t = "list"
    THEN LangCodes(wj.languages.v)
    ELSE <<>>

\* wj.get(field, []) or []
OrEmptyList(x) == IF Truthy(x) THEN x ELSE List(<<>>)

get_work_details(wj) ==
    [subjects |-> OrEmptyList(wj.subjects),
     subject_people |-> OrEmptyList(wj.subject_people),
     subject_places |-> OrEmptyList(wj.subject_places),
     subject_times |-> OrEmptyList(wj.subject_times),
     languages |-> parse_languages_from_work(wj)]

\* ", ".join(x): a string is joined by characters, a mapping by keys, and a
\* number raises TypeError
JoinRaises(x) == x.t = "num"
JoinField(x) == JoinComma(x.v)

----------------------------------------------------------------------------
(* infer_from_editions_for_first_year *)

RECURSIVE IntItems(_)
IntItems(items) ==
    IF items = <<>> THEN <<>>
    ELSE IF Head(items).t = "int"
         THEN <<Head(items).n>> \o IntItems(Tail(items))
         ELSE IntItems(Tail(items))

SeqMin(s) == CHOOSE m \in {s[i] : i \in 1..Len(s)} :
                 \A j \in 1..Len(s) : m <= s[j]

IsDigit(c) == c \in 0..9

\* re.search(r"(\d{4})", pdate): pdate is a sequence of characters, a digit
\* being its value and any other character -1
YearMatches(pdate) ==
    {i \in 1..(Len(pdate) - 3) : \A j \in i..(i + 3) : IsDigit(pdate[j])}

FirstYearIn(pdate) ==
    IF YearMatches(pdate) = {} THEN None
    ELSE LET i == CHOOSE m \in YearMatches(pdate) :
                      \A n \in YearMatches(pdate) : m <= n
         IN Some(1000 * pdate[i] + 100 * pdate[i + 1]
                 + 10 * pdate[i + 2] + pdate[i + 3])

\* lines 175-190: the year of one edition
EditionYear(e) ==
    LET ints == IF e.publish_year.t = "list" THEN IntItems(e.publish_year.v)
                ELSE <<>>
    IN IF ints # <<>> THEN Some(SeqMin(ints))
       ELSE IF e.publish_date # None THEN FirstYearIn(e.publish_date[1])
       ELSE None

\* the test of line 200 without the comparison of the years
YearMatchAny(first_publish_year, year) == first_publish_year.t = "int"

\* line 200: first_publish_year is [t |-> "int" | "float" | "absent", n |-> year]
YearMatch(first_publish_year, year) ==
    first_publish_year.t = "int" /\ year = Some(first_publish_year.n)

\* lines 202-206
PublisherOf(e) ==
    IF e.publishers # <<>> /\ Strip(e.publishers[1]) # ""
    THEN Some(Strip(e.publishers[1])) ELSE None

\* lines 209-228
PlaceOf(e) ==
    LET p1 == IF e.publish_places # <<>> /\ Strip(e.publish_places[1]) # ""
              THEN Some(Strip(e.publish_places[1])) ELSE None
        pl1 == e.publish_place
        p2 == IF p1 # None THEN p1
              ELSE IF pl1.t = "list" /\ pl1.v # <<>>
                   THEN (IF Strip(pl1.v[1]) # "" THEN Some(Strip(pl1.v[1])) ELSE None)
              ELSE IF pl1.t = "str" /\ Strip(pl1.v[1]) # ""
                   THEN Some(Strip(pl1.v[1]))
              ELSE None
    IN IF p2 # None THEN p2
       ELSE IF e.publish_country # None /\ Strip(e.publish_country[1]) # ""
            THEN Some(Strip(e.publish_country[1]))
       ELSE None

\* the editions of the loop of line 160 that pass the test of line 200
RECURSIVE MatchingEditions(_, _)
MatchingEditions(entries, first_publish_year) ==
    IF entries = <<>> THEN <<>>
    ELSE IF YearMatch(first_publish_year, EditionYear(Head(entries)))
         THEN <<Head(entries)>> \o MatchingEditions(Tail(entries), first_publish_year)
         ELSE MatchingEditions(Tail(entries), first_publish_year)

\* candidate_pubs and candidate_places, in the order of the entries
RECURSIVE PubsOf(_)
PubsOf(es) == IF es = <<>> THEN <<>> ELSE PublisherOf(Head(es)) \o PubsOf(Tail(es))

RECURSIVE PlacesOf(_)
PlacesOf(es) == IF es = <<>> THEN <<>> ELSE PlaceOf(Head(es)) \o PlacesOf(Tail(es))

Count(s, x) == Cardinality({i \in 1..Len(s) : s[i] = x})

\* Counter(s).most_common(1)[0][0] if s else None: the highest count, the
\* first inserted label winning a tie
MostCommon(s) ==
    IF s = <<>> THEN None
    ELSE LET best == CHOOSE i \in 1..Len(s) :
                 /\ \A j \in 1..Len(s) : Count(s, s[j]) <= Count(s, s[i])
                 /\ \A j \in 1..(i - 1) : Count(s, s[j]) < Count(s, s[i])
         IN Some(s[best])

\* the set of language codes of all editions (lines 193-197)
RECURSIVE EditionLangs(_)
EditionLangs(entries) ==
    IF entries = <<>> THEN {}
    ELSE LET codes == LangCodes(Head(entries).languages)
         IN {codes[i] : i \in 1..Len(codes)} \cup EditionLangs(Tail(entries))

\* list(langs): every ordering of the set, the iteration order of a Python
\* set of strings being unspecified
Orderings(S) ==
    {s \in [1..Cardinality(S) -> S] : \A x \in S : \E i \in DOMAIN s : s[i] = x}

infer_from_editions_for_first_year(entries, first_publish_year) ==
    [publisher |-> MostCommon(PubsOf(MatchingEditions(entries, first_publish_year))),
     publish_place |-> MostCommon(PlacesOf(MatchingEditions(entries, first_publish_year))),
     langs |-> EditionLangs(entries)]

----------------------------------------------------------------------------
(* Responses of the remote catalog *)

NoYear == [t |-> "absent", n |-> 0]
Year(n) == [t |-> "int", n |-> n]
FloatYear(n) == [t |-> "float", n |-> n]

Doc(key, year, language) ==
    [key |-> key, first_publish_year |-> year, language |-> language]

LangItem(segs) == [t |-> "dict", kstr |-> TRUE, k |-> segs]
Eng == LangItem(<<"", "languages", "eng">>)
Fre == LangItem(<<"", "languages", "fre">>)

Work(subjects, languages) ==
    [subjects |-> subjects, subject_people |-> absent,
     subject_places |-> List(<<"London">>), subject_times |-> List(<<>>),
     languages |-> languages]

Edition(py, pdate, pubs, places, langs) ==
    [publish_year |-> py, publish_date |-> pdate, publishers |-> pubs,
     publish_places |-> places, publish_place |-> absent,
     publish_country |-> None, languages |-> langs]

IntItem(n) == [t |-> "int", n |-> n]
StrItem(n) == [t |-> "str", n |-> n]

Summary(count, average) == [count |-> count, average |-> average]
NoNumber == [t |-> "absent", n |-> 0]
JInt(n) == [t |-> "int", n |-> 10 * n]
JFloat(tenths) == [t |-> "float", n |-> tenths]
JStr == [t |-> "str", n |-> 0]

WorkKeys == {"/works/OL1W", "/works/OL2W"}
KeyPool == {None} \cup {Some(k) : k \in WorkKeys}

\* ratings.json: a failed request, no votes, 2.5 as a float count, a count
\* sent as text
SummaryPool ==
    {Summary(NoNumber, NoNumber), Summary(JInt(0), NoNumber),
     Summary(JFloat(25), JFloat(41)), Summary(JStr, JInt(4))}

\* Inputs of one document step: <<search document, work resource, editions
\* entries>>.  The harvest loop is explored with HarvestInputs.
PlainWork == Work(List(<<"Fiction", "Drama">>), List(<<Eng>>))
Penguin1950 ==
    Edition(List(<<IntItem(1950)>>), None, <<"Penguin">>, <<"London">>, <<Eng>>)

HarvestInputs ==
    {Doc(k, Year(1950), absent) : k \in KeyPool}
        \X {PlainWork, Work(Num("5"), List(<<Eng>>))}
        \X {<<Penguin1950>>}

\* The enrichment is explored with three families of inputs: one varying
\* the three language sources, one the first-publish year and the
\* editions, one the subject fields of the work.
OneKey == Some("/works/OL1W")

SearchLanguageFields ==
    {absent,
     List(<<[t |-> "str", s |-> "ger"]>>),
     List(<<[t |-> "num", s |-> "5"], [t |-> "other", s |-> ""],
            [t |-> "str", s |-> "spa"]>>),
     List(<<[t |-> "other", s |-> ""]>>),
     Str(<<"ita">>)}

WorkLanguageFields ==
    {absent,
     List(<<Eng, Fre>>),
     List(<<LangItem(<<"", "type", "eng">>), [t |-> "other", kstr |-> FALSE, k |-> <<"">>],
            [t |-> "dict", kstr |-> FALSE, k |-> <<"">>]>>),
     List(<<LangItem(<<"">>), Fre>>),
     Str(<<"e", "n", "g">>),
     Num("5")}

Vintage1951 ==
    [Edition(List(<<StrItem(1950)>>), Some(<<1, 9, 5, 1, 1, 9, 5, 0>>),
             <<"Vintage">>, <<>>, <<Fre>>)
     EXCEPT !.publish_country = Some("xxu")]
Dated1950 ==
    [Edition(absent, Some(<<-1, 1, 9, 5, 0, -1>>), <<" Penguin ">>, <<" ">>, <<>>)
     EXCEPT !.publish_place = Text(" London")]
Undated ==
    Edition(List(<<>>), Some(<<1, 9, 5, -1>>), <<"Faber">>, <<"Paris">>,
            <<LangItem(<<"", "languages", "rus">>)>>)
Reprint ==
    [Edition(List(<<IntItem(1951), IntItem(1950)>>), None, <<" ">>, <<>>, <<Eng>>)
     EXCEPT !.publish_place = List(<<"Paris">>)]
EditionPool == {Penguin1950, Vintage1951, Dated1950, Undated, Reprint}

SeqsUpTo(S, n) == UNION {[1..m -> S] : m \in 0..n}

LanguageInputs ==
    {Doc(OneKey, Year(1950), l) : l \in SearchLanguageFields}
        \X {Work(List(<<"Fiction">>), l) : l \in WorkLanguageFields}
        \X {<<>>, <<Dated1950>>, <<Penguin1950, Vintage1951>>}

EditionInputs ==
    {Doc(OneKey, y, absent) : y \in {NoYear, Year(1950), FloatYear(1950)}}
        \X {PlainWork}
        \X SeqsUpTo(EditionPool, MaxEditions)

SubjectFields ==
    {absent, List(<<>>), List(<<"Fiction", "Drama">>), Str(<<"a", "b">>),
     Str(<<>>), Num("5"), Num("0"), Map(<<"k">>), Map(<<>>),
     [t |-> "null", v |-> <<>>]}

SubjectInputs ==
    {Doc(OneKey, Year(1950), absent), Doc(None, Year(1950), absent)}
        \X ({Work(x, List(<<Eng>>)) : x \in SubjectFields}
            \cup {[PlainWork EXCEPT !.subject_people = x] : x \in SubjectFields}
            \cup {[PlainWork EXCEPT !.subject_places = x] : x \in SubjectFields}
            \cup {[PlainWork EXCEPT !.subject_times = x] : x \in SubjectFields})
        \X {<<>>}

EnrichInputs == LanguageInputs \cup EditionInputs \cup SubjectInputs

----------------------------------------------------------------------------
(* harvest_openlibrary *)

\* d.get("language", []) or [], then the comprehension of line 394; items are
\* [t |-> "str" | "num" | "other", s |-> str(x)].  current is the list kept
\* when the field is not a list.
RECURSIVE StrItems(_)
StrItems(items) ==
    IF items = <<>> THEN <<>>
    ELSE IF Head(items).t \in {"str", "num"}
         THEN <<Head(items).s>> \o StrItems(Tail(items))
         ELSE StrItems(Tail(items))

SearchLanguages(d, current) ==
    IF ~Truthy(d.language) THEN <<>>
    ELSE IF d.language.t = "list" THEN StrItems(d.language.v)
    ELSE current

\* line 416 without the test of the running list
UseEditionLangsAlways(languages, langs_ed) == langs_ed # <<>>

\* line 416
UseEditionLangs(languages, langs_ed) == languages = <<>> /\ langs_ed # <<>>

\* not work_key (line 362)
KeyMissing(key) == key = None \/ key = Some("")

\* d.get("key") as a string, None giving ""
KeyOf(d) == IF d.key = None THEN "" ELSE d.key[1]

\* a membership test that never finds the key
SeenCheckNever(k, s) == FALSE

\* work_key in seen (line 362)
SeenCheck(k, s) == k \in s

\* the guard comparing with > instead of >=
TargetReachedLate(n, target) == n > target

\* the loop guard of lines 358-359
TargetReached(n, target) == n >= target

\* the limit compared with > instead of >=
SkipLimitHitLate(skips, limit) == skips > limit

\* lines 369 and 472
SkipLimitHit(skips, limit) == skips >= limit

\* a rejected work marked as seen
SeenAfterRejectMarks(s, k) == s \cup {k}

\* seen after a document failed the ratings filter (lines 367-374)
SeenAfterReject(s, k) == s

\* lines 380-417 and 423-461: the row of an accepted document; langs_ed is
\* list(langs) of the editions in the order the set yields
AssembleRow(d, r, wj, entries, langs_ed, use) ==
    LET w == get_work_details(wj)
        l1 == IF w.languages = <<>> THEN SearchLanguages(d, w.languages)
              ELSE w.languages
        ed == infer_from_editions_for_first_year(entries, d.first_publish_year)
        l2 == IF use /\ UseEditionLangs(l1, langs_ed) THEN langs_ed ELSE l1
    IN [work_key |-> KeyOf(d),
        first_publish_year |-> d.first_publish_year,
        subject |-> JoinField(w.subjects),
        subject_people |-> JoinField(w.subject_people),
        subject_places |-> JoinField(w.subject_places),
        subject_times |-> JoinField(w.subject_times),
        language |-> IF l2 # <<>> THEN Some(JoinComma(l2)) ELSE None,
        publisher |-> IF use THEN ed.publisher ELSE None,
        publish_place |-> IF use THEN ed.publish_place ELSE None,
        ratings_count |-> r.cnt,
        ratings_average |-> r.avg]

\* the TypeErrors of lines 269 and 436-439
AssembleRaises(wj) ==
    LET w == get_work_details(wj)
    IN \/ ParseLanguagesRaises(wj)
       \/ JoinRaises(w.subjects) \/ JoinRaises(w.subject_people)
       \/ JoinRaises(w.subject_places) \/ JoinRaises(w.subject_times)

NoDoc == Doc(None, NoYear, absent)
NoWork == Work(absent, absent)
Step(op) == [op |-> op, d |-> NoDoc, cnt |-> None, wj |-> NoWork, entries |-> <<>>]
\* a skipped or rejected document: only its key was read
DocStep(op, d, cnt) == [Step(op) EXCEPT !.d.key = d.key, !.cnt = cnt]
RowStep(op, d, cnt, wj, entries) ==
    [op |-> op, d |-> d, cnt |-> cnt, wj |-> wj, entries |-> entries]

\* the parameter values the harvest loop is explored with
TargetValues == {-1} \cup 1..MaxTarget
MinRatingsValues == {-1, 0, 2}
SkipLimitValues == {0, 1, MaxSkips}
PageCapValues == {1, MaxPages}

Start ==
    /\ rows = <<>> /\ seen = {}
    /\ qi = 1 /\ page = 1 /\ consecutive_skips = 0
    /\ ndocs = 0 /\ di = 1
    /\ pc = "for_q"
    /\ ended = {} /\ failrun = 0 /\ page_abort = FALSE
    /\ last = Step("call")

Init ==
    /\ target_books \in TargetValues
    /\ min_ratings \in MinRatingsValues
    /\ max_skips_without_rating \in SkipLimitValues
    /\ max_pages_per_query \in PageCapValues
    /\ use_editions_fallback = TRUE
    /\ Start

\* lines 342-348: the next query starts
NextQuery ==
    /\ pc = "for_q" /\ qi <= Len(QUERIES)
    /\ ~TargetReached(Len(rows), target_books)
    /\ page' = 1 /\ consecutive_skips' = 0 /\ failrun' = 0
    /\ pc' = "while"
    /\ last' = Step("query")
    /\ UNCHANGED <<config, rows, seen, qi, ndocs, di, ended, page_abort>>

\* lines 342-344 and 478: the list is exhausted or the target is reached
Finish ==
    /\ pc = "for_q"
    /\ qi > Len(QUERIES) \/ TargetReached(Len(rows), target_books)
    /\ pc' = "done"
    /\ last' = Step("return")
    /\ UNCHANGED <<config, rows, seen, qi, page, consecutive_skips, ndocs, di,
                   ended, failrun, page_abort>>

WhileCond == Len(rows) < target_books /\ page <= max_pages_per_query

\* line 350: the page loop ends by its own condition
WhileExit ==
    /\ pc = "while" /\ ~WhileCond
    /\ ended' = ended \cup {IF Len(rows) >= target_books THEN "target"
                            ELSE "page_cap"}
    /\ qi' = qi + 1 /\ pc' = "for_q"
    /\ last' = Step("while_exit")
    /\ UNCHANGED <<config, rows, seen, page, consecutive_skips, ndocs, di,
                   failrun, page_abort>>

\* lines 351-357: a page with documents; each document is drawn when the
\* loop reads it
FetchPage ==
    /\ pc = "while" /\ WhileCond
    /\ \E n \in 1..MaxDocs : ndocs' = n
    /\ di' = 1 /\ pc' = "for_d" /\ page_abort' = FALSE
    /\ last' = Step("fetch")
    /\ UNCHANGED <<config, rows, seen, qi, page, consecutive_skips, ended, failrun>>

\* lines 351-355: a page without documents (or a failed request)
EmptyPage ==
    /\ pc = "while" /\ WhileCond
    /\ ended' = ended \cup {"empty_page"}
    /\ qi' = qi + 1 /\ pc' = "for_q"
    /\ last' = Step("fetch")
    /\ UNCHANGED <<config, rows, seen, page, consecutive_skips, ndocs, di,
                   failrun, page_abort>>

\* line 357: no document left on the page
PageScanned ==
    /\ pc = "for_d" /\ di > ndocs
    /\ pc' = "after_docs"
    /\ last' = Step("page_scanned")
    /\ UNCHANGED <<config, rows, seen, qi, page, consecutive_skips, ndocs, di,
                   ended, failrun, page_abort>>

\* lines 358-359
TargetBreak ==
    /\ pc = "for_d" /\ di <= ndocs
    /\ TargetReached(Len(rows), target_books)
    /\ pc' = "after_docs"
    /\ last' = Step("target_break")
    /\ UNCHANGED <<config, rows, seen, qi, page, consecutive_skips, ndocs, di,
                   ended, failrun, page_abort>>

DocsOf(Inputs) == {in[1] : in \in Inputs}

AtDoc == pc = "for_d" /\ di <= ndocs /\ ~TargetReached(Len(rows), target_books)

\* lines 361-363
SkipDoc(Inputs) ==
    /\ AtDoc
    /\ \E d \in DocsOf(Inputs) :
        /\ (KeyMissing(d.key) \/ SeenCheck(KeyOf(d), seen))
        /\ last' = DocStep("skip", d, None)
    /\ di' = di + 1
    /\ UNCHANGED <<config, rows, seen, qi, page, consecutive_skips, ndocs, pc,
                   ended, failrun, page_abort>>

Evaluated(d) == ~KeyMissing(d.key) /\ ~SeenCheck(KeyOf(d), seen)

\* lines 366-374, the counter staying under the limit
RejectDoc(Inputs) ==
    /\ AtDoc
    /\ \E d \in DocsOf(Inputs), summary \in SummaryPool :
        /\ Evaluated(d)
        /\ RatingFails(get_ratings(summary).cnt, min_ratings)
        /\ seen' = SeenAfterReject(seen, KeyOf(d))
        /\ last' = DocStep("reject", d, get_ratings(summary).cnt)
    /\ ~SkipLimitHit(consecutive_skips + 1, max_skips_without_rating)
    /\ consecutive_skips' = consecutive_skips + 1
    /\ failrun' = failrun + 1
    /\ di' = di + 1
    /\ UNCHANGED <<config, rows, qi, page, ndocs, pc, ended, page_abort>>

\* lines 366-372, the counter reaching the limit
AbortQuery(Inputs) ==
    /\ AtDoc
    /\ \E d \in DocsOf(Inputs), summary \in SummaryPool :
        /\ Evaluated(d)
        /\ RatingFails(get_ratings(summary).cnt, min_ratings)
        /\ seen' = SeenAfterReject(seen, KeyOf(d))
        /\ last' = DocStep("abort", d, get_ratings(summary).cnt)
    /\ SkipLimitHit(consecutive_skips + 1, max_skips_without_rating)
    /\ consecutive_skips' = consecutive_skips + 1
    /\ failrun' = failrun + 1
    /\ page_abort' = TRUE
    /\ pc' = "after_docs"
    /\ UNCHANGED <<config, rows, qi, page, ndocs, di, ended>>

\* lines 366-470, the document passing the filter
AcceptDoc(Inputs) ==
    /\ AtDoc
    /\ \E in \in Inputs, summary \in SummaryPool :
      LET d == in[1]  wj == in[2]  entries == in[3] IN
        /\ Evaluated(d)
        /\ ~RatingFails(get_ratings(summary).cnt, min_ratings)
        /\ ~AssembleRaises(wj)
        /\ \E langs_ed \in Orderings(EditionLangs(entries)) :
             rows' = Append(rows, AssembleRow(d, get_ratings(summary), wj, entries,
                                              langs_ed, use_editions_fallback))
        /\ seen' = seen \cup {KeyOf(d)}
        /\ last' = RowStep("accept", d, get_ratings(summary).cnt, wj, entries)
    /\ consecutive_skips' = 0
    /\ failrun' = 0
    /\ di' = di + 1
    /\ UNCHANGED <<config, qi, page, ndocs, pc, ended, page_abort>>

\* lines 366-439, the work resource making the row assembly raise
RaiseDoc(Inputs) ==
    /\ AtDoc
    /\ \E in \in Inputs, summary \in SummaryPool :
      LET d == in[1]  wj == in[2] IN
        /\ Evaluated(d)
        /\ ~RatingFails(get_ratings(summary).cnt, min_ratings)
        /\ AssembleRaises(wj)
        /\ last' = RowStep("raise", d, get_ratings(summary).cnt, wj, <<>>)
    /\ consecutive_skips' = 0
    /\ failrun' = 0
    /\ pc' = "raised"
    /\ UNCHANGED <<config, rows, seen, qi, page, ndocs, di, ended, page_abort>>

\* how a query ends at line 473: by the abort of line 372 on this page;
\* else, when the page loop would have ended anyway, by the target or the
\* page cap; else by the check of line 472 alone
AbandonReason ==
    IF page_abort THEN "skip_abort"
    ELSE IF Len(rows) >= target_books THEN "target"
    ELSE IF page >= max_pages_per_query THEN "page_cap"
    ELSE "skip_check"

\* lines 472-473
AbandonQuery ==
    /\ pc = "after_docs"
    /\ SkipLimitHit(consecutive_skips, max_skips_without_rating)
    /\ ended' = ended \cup {AbandonReason}
    /\ qi' = qi + 1 /\ pc' = "for_q"
    /\ last' = Step("abandon")
    /\ UNCHANGED <<config, rows, seen, page, consecutive_skips, ndocs, di,
                   failrun, page_abort>>

\* lines 475-476
NextPage ==
    /\ pc = "after_docs"
    /\ ~SkipLimitHit(consecutive_skips, max_skips_without_rating)
    /\ page' = page + 1 /\ pc' = "while"
    /\ last' = Step("next_page")
    /\ UNCHANGED <<config, rows, seen, qi, consecutive_skips, ndocs, di, ended,
                   failrun, page_abort>>

Step1(Inputs) ==
    \/ NextQuery \/ Finish \/ WhileExit \/ FetchPage \/ EmptyPage
    \/ PageScanned \/ TargetBreak
    \/ SkipDoc(Inputs) \/ RejectDoc(Inputs) \/ AbortQuery(Inputs)
    \/ AcceptDoc(Inputs) \/ RaiseDoc(Inputs)
    \/ AbandonQuery \/ NextPage

Next == Step1(HarvestInputs)

Spec == Init /\ [][Next]_vars

\* one configuration, every enrichment input
InitEnrich ==
    /\ target_books = 1
    /\ min_ratings = 2
    /\ max_skips_without_rating = 2
    /\ max_pages_per_query = 1
    /\ use_editions_fallback \in BOOLEAN
    /\ Start

NextEnrich == Step1(EnrichInputs)

SpecEnrich == InitEnrich /\ [][NextEnrich]_vars

TypeOK == pc \in {"for_q", "while", "for_d", "after_docs", "done", "raised"}

----------------------------------------------------------------------------
(* Properties *)

LastRow == rows[Len(rows)]
LookupOps == {"reject", "abort", "accept", "raise"}
InQuery == pc \in {"while", "for_d", "after_docs"}

\* C1: every output row has a ratings_count that is present and at least
\* min_ratings; a document without a count is never accepted, also when
\* min_ratings is 0 or negative.
C1_RatingsAtLeastMin ==
    \A i \in 1..Len(rows) :
        /\ rows[i].ratings_count # None
        /\ rows[i].ratings_count[1] >= min_ratings

\* a document without a count was just rejected under a minimum of 0 or
\* less, after a row was accepted
C1_Witness ==
    /\ min_ratings <= 0
    /\ last.op = "reject" /\ last.cnt = None
    /\ Len(rows) >= 1

\* C2: no two output rows come from the same work key.
C2_NoDuplicateWorkKey ==
    \A i, j \in 1..Len(rows) : i # j => rows[i].work_key # rows[j].work_key

\* an accepted work key reappeared in a later query and was skipped
C2_Witness ==
    /\ last.op = "skip" /\ last.d.key # None
    /\ KeyOf(last.d) \in seen
    /\ qi >= 2

\* C3 as stated: the number of rows never exceeds target_books, for every
\* value of target_books.
C3_RowsAtMostAnyTarget == Len(rows) <= target_books

\* C3, amended: the number of rows never exceeds target_books when
\* target_books is 0 or more, and is 0 when target_books is negative.
C3_RowsAtMostTarget == Len(rows) <= Max(target_books, 0)

\* the target was reached with documents left on the page
C3_Witness ==
    /\ target_books >= 1 /\ Len(rows) = target_books
    /\ last.op = "target_break" /\ di <= ndocs

\* C4: once max_skips_without_rating documents in a row have failed the
\* ratings filter in a query, no step of that query looks up ratings or
\* requests a page any more.
C4_AbortStopsQuery ==
    [][(/\ failrun >= max_skips_without_rating
        /\ failrun >= 1
        /\ InQuery)
       => last'.op \notin (LookupOps \cup {"fetch"})]_vars

\* a query was abandoned at the limit with documents and pages left
C4_Witness ==
    /\ last.op = "abandon"
    /\ max_skips_without_rating = 1 /\ failrun = 1
    /\ di < ndocs
    /\ page < max_pages_per_query

\* the three language sources of the last accepted document
WorkLangs == parse_languages_from_work(last.wj)
SearchLangs == SearchLanguages(last.d, <<>>)
EditionLangSet == EditionLangs(last.entries)

\* C5: the language of a row is the work-level list if it is non-empty,
\* otherwise the search document's list if it yields a non-empty list,
\* otherwise (with use_editions_fallback) the editions' list, and absent
\* when all enabled sources are empty.
C5_LanguagePrecedence ==
    last.op = "accept" =>
        IF WorkLangs # <<>> THEN LastRow.language = Some(JoinComma(WorkLangs))
        ELSE IF SearchLangs # <<>>
             THEN LastRow.language = Some(JoinComma(SearchLangs))
        ELSE IF use_editions_fallback /\ EditionLangSet # {}
             THEN \E o \in Orderings(EditionLangSet) :
                      LastRow.language = Some(JoinComma(o))
        ELSE LastRow.language = None

\* the search document's list was used although the editions have languages
C5_Witness ==
    /\ last.op = "accept" /\ use_editions_fallback
    /\ WorkLangs = <<>> /\ SearchLangs # <<>> /\ EditionLangSet # {}
    /\ LastRow.language = Some(JoinComma(SearchLangs))

\* the editions of the last accepted document whose year is the document's
\* first_publish_year
SameYear ==
    {i \in 1..Len(last.entries) :
        /\ last.d.first_publish_year.t # "absent"
        /\ EditionYear(last.entries[i]) = Some(last.d.first_publish_year.n)}

\* C6: publisher and publish_place of a row come only from editions whose
\* year equals first_publish_year, and both are absent when no edition has
\* that year, when first_publish_year is absent or when
\* use_editions_fallback is false.
C6_YearScopedPublisher ==
    last.op = "accept" =>
        /\ LastRow.publisher # None =>
               \E i \in SameYear : PublisherOf(last.entries[i]) = LastRow.publisher
        /\ LastRow.publish_place # None =>
               \E i \in SameYear : PlaceOf(last.entries[i]) = LastRow.publish_place
        /\ (SameYear = {} \/ ~use_editions_fallback) =>
               LastRow.publisher = None /\ LastRow.publish_place = None

\* a row took its publisher from the edition of the year while an edition
\* of another year names another publisher
C6_Witness ==
    /\ last.op = "accept" /\ LastRow.publisher # None
    /\ \E i \in 1..Len(last.entries) :
           /\ i \notin SameYear
           /\ PublisherOf(last.entries[i]) # None
           /\ PublisherOf(last.entries[i]) # LastRow.publisher

\* C7: when the harvest returns, the row count has reached target_books or
\* every query of the list was ended by the page cap, by an empty page or
\* by the skip-threshold abort.
C7_ReturnsAtTargetOrExhausted ==
    pc = "done" =>
        \/ Len(rows) >= target_books
        \/ /\ qi > Len(QUERIES)
           /\ ended \subseteq {"page_cap", "empty_page", "skip_abort"}

SubjectFieldNames ==
    {"subjects", "subject_people", "subject_places", "subject_times"}

\* C8: the work detail lookup returns the empty list for each subject field
\* that is absent or not a list, and assembling the row from these fields
\* never raises.
C8_SubjectsDefaultToEmpty ==
    last.op \in {"accept", "raise"} =>
        \A f \in SubjectFieldNames :
            /\ last.wj[f].t # "list" => get_work_details(last.wj)[f] = List(<<>>)
            /\ ~JoinRaises(get_work_details(last.wj)[f])

\* C9: before the page cap and the target are reached, a query is abandoned
\* after a page only if a document failing the ratings filter on that page
\* brought the counter up to max_skips_without_rating.
C9_AbandonOnlyAfterFailure ==
    [][(/\ pc = "after_docs" /\ pc' = "for_q"
        /\ page < max_pages_per_query
        /\ Len(rows) < target_books)
       => page_abort]_vars

\* C10: the seen set is exactly the set of work keys of the rows, and a
\* rejected or skipped document changes neither the rows nor the seen set.
C10_SeenIsAcceptedKeys ==
    /\ [](/\ seen = {rows[i].work_key : i \in 1..Len(rows)}
          /\ Cardinality(seen) = Len(rows))
    /\ [][last'.op \in {"reject", "abort", "skip"}
          => rows' = rows /\ seen' = seen]_vars

\* a work was rejected after another one was accepted, and is not in seen
C10_Witness ==
    /\ last.op = "reject"
    /\ KeyOf(last.d) \notin seen
    /\ Len(rows) >= 1 /\ Cardinality(seen) = Len(rows)

====
